---- MODULE Spec2Model ----
(***************************************************************************)
(* LevitonWebSocket (aioleviton/websocket.py): the push-channel manager.   *)
(*                                                                         *)
(* One caller drives the public coroutines; every `await` of the source is *)
(* a step boundary, and the code between two awaits is one atomic step     *)
(* (asyncio is cooperative).  The receive loop `_listen` runs as a task    *)
(* whose steps interleave with the caller at those boundaries.  The        *)
(* transport (aiohttp) is the environment: the outcome of every open,      *)
(* send and receive is chosen nondeterministically.  ws.close() succeeds.  *)
(***************************************************************************)
EXTENDS Integers, Sequences, FiniteSets, TLC

\* ------------------------------------------------------------- bounds
\* Transports ws_connect opens in one behaviour.
MaxTransports == 2
\* Observers registered at one time, over both registries.
MaxObservers == 2

\* ---------------------------------------------------- program constants
\* `for _ in range(10)` in connect().
HandshakeAttempts == 10

\* (model_name, model_id) pairs the caller subscribes to.
Pairs == {<<"IotWhem", "w1">>, <<"ResidentialBreakerPanel", "p1">>}
\* Observers the caller registers.  The ones in Raising raise on every call;
\* the ones in Deregistering call, on every call, the remove() that their
\* registration returned.
Callbacks == {"cb1", "cb2", "cb3"}
Raising == {"cb2"}
Deregistering == {"cb3"}

None == 0

VARIABLES
    ws,                      \* self._ws: None or a transport
    connected,               \* self._connected
    connection_id,           \* self._connection_id
    subscriptions,           \* self._subscriptions
    notification_callbacks,  \* self._notification_callbacks
    disconnect_callbacks,    \* self._disconnect_callbacks
    listen_task,             \* self._listen_task: None or a task
    transports,              \* every transport ws_connect has returned
    sent,                    \* frames the current call has sent, and on which transport
    tasks,                   \* every task create_task has returned
    pc,                      \* the await the caller is suspended in
    op,                      \* the public method the caller is in / was last in
    arg,                     \* (model_name, model_id) of the subscribe in progress
    saved,                   \* reconnect(): entries of `saved` not yet replayed
    attempt,                 \* connect(): iterations of the ready wait started
    result,                  \* how the last call ended ("pending" while it runs)
    event,                   \* what the receive loop did in the step just taken
    hist,                    \* observations of the current call
    ideal,                   \* the set the subscribe/unsubscribe calls denote
    clean,                   \* all were made connected, transport open, sends succeeded
    cls,                     \* the class of the REST client constructed
    token,                   \* self._token
    user_id,                 \* self._user_id
    auth_token,              \* self._auth_token: None or an AuthToken
    response,                \* what the session answers to the request in flight
    cpc,                     \* the await the client's caller is suspended in
    cop,                     \* the client method the caller is in / was last in
    cresult,                 \* how the last client call ended
    websocket,               \* the LevitonWebSocket create_websocket() returned last
    attempts,                \* reconnect_delay(attempts)
    jitter,                  \* what random.random() returned, in units of 2^-Precision
    delay,                   \* what reconnect_delay returned
    capabilities             \* the remove() closures on_notification / on_disconnect returned

mgr == <<ws, connected, connection_id, subscriptions, notification_callbacks,
         disconnect_callbacks, listen_task>>
registries == <<notification_callbacks, disconnect_callbacks>>
env == <<transports, sent, tasks>>
locals == <<arg, saved, attempt>>
ghost == <<ideal, clean>>
manager == <<mgr, env, pc, op, locals, result, event, hist, ghost>>
client == <<cls, token, user_id, auth_token, response, cpc, cop, cresult, websocket>>
backoff == <<attempts, jitter, delay>>
outside == <<client, backoff, capabilities>>
vars == <<manager, client, backoff, capabilities>>

\* ------------------------------------------------------------ transport
NewTransport == [closed |-> FALSE, ready |-> FALSE, nclose |-> 0]

\* The frames of lines 86-96, 163-166 and 181-184, and the transport each
\* is sent on: self._ws.
HandshakeFrame == [type |-> "handshake", subscription |-> <<>>, on |-> ws]
SubscribeFrame(p) == [type |-> "subscribe", subscription |-> p, on |-> ws]
UnsubscribeFrame(p) == [type |-> "unsubscribe", subscription |-> p, on |-> ws]

\* ws.close() on transport w.
Closed(w) ==
    [transports EXCEPT ![w].closed = TRUE, ![w].nclose = @ + 1]

\* A CLOSED / ERROR / CLOSING message, or the end of the stream, was received
\* on transport w: whether the transport reports itself closed afterwards is
\* the transport's business.
PeerClosed(w, c) ==
    [transports EXCEPT ![w].closed = @ \/ c]

\* `not self._ws or self._ws.closed`
NoOpenWs == ws = None \/ transports[ws].closed

\* ---------------------------------------------------------------- tasks
\* fin: the times the `finally` of _listen has run in the task; exc: the
\* exception the task ended with, which `await task` raises.
NewTask ==
    [st |-> "created", ws |-> None, cancel |-> FALSE, fin |-> 0,
     exc |-> "none"]

Live(t) == tasks[t].st # "done"

\* `self._listen_task and not self._listen_task.done()`
ListenTaskPending == listen_task # None /\ Live(listen_task)

\* -------------------------------------------------------------- history
NoEvent == [kind |-> "none", task |-> None, invoked |-> <<>>, registered |-> <<>>]

\* What a call records about itself, reset when the next call starts.
CallHist ==
    [pre_subs |-> subscriptions,     \* subscriptions when the call started
     pre_connected |-> connected,    \* connected when the call started
     pre_tasks |-> Len(tasks),       \* tasks created before the call
     pre_transports |-> Len(transports),  \* transports opened before the call
     pre_ws |-> ws,                  \* the handle held when the call started
     pre_observers |-> Len(notification_callbacks) + Len(disconnect_callbacks),
     hs |-> "none",                  \* how connect()'s handshake ended
     send_failed |-> FALSE]          \* a send_json of the call raised

\* Python's None where the other values are strings.
Unset == "None"

\* An AuthToken that was never built (self._auth_token is None).
NoAuthToken ==
    [token |-> Unset, ttl |-> Unset, created |-> Unset, user_id |-> Unset,
     user |-> Unset]

\* No LevitonWebSocket was returned.
NoWebsocket ==
    [token |-> Unset, user_id |-> Unset, user |-> Unset,
     token_created |-> Unset, token_ttl |-> Unset]

\* No REST client takes part.
NoClient ==
    /\ cls = "none"
    /\ token = Unset
    /\ user_id = Unset
    /\ auth_token = NoAuthToken
    /\ response = [status |-> "none"]
    /\ cpc = "idle"
    /\ cop = "none"
    /\ cresult = "ok"
    /\ websocket = NoWebsocket

\* reconnect_delay has not been called.
NotCalled == [called |-> FALSE, raised |-> "none", value |-> 0]

NoBackoff ==
    /\ attempts = 0
    /\ jitter = 0
    /\ delay = NotCalled

\* The capabilities are not followed.
NoCapabilities == capabilities = <<>>

ManagerInit ==
    /\ ws = None
    /\ connected = FALSE
    /\ connection_id = None
    /\ subscriptions = {}
    /\ notification_callbacks = <<>>
    /\ disconnect_callbacks = <<>>
    /\ listen_task = None
    /\ transports = <<>>
    /\ sent = <<>>
    /\ tasks = <<>>
    /\ pc = "idle"
    /\ op = "none"
    /\ arg = <<>>
    /\ saved = {}
    /\ attempt = 0
    /\ result = "ok"
    /\ event = NoEvent
    /\ hist = CallHist
    /\ ideal = {}
    /\ clean = TRUE

\* A manager as its constructor leaves it (lines 46-58), on its own.
Init ==
    /\ ManagerInit
    /\ NoClient
    /\ NoBackoff
    /\ NoCapabilities

\* ------------------------------------------------- how a call ends
\* The call returns: its locals are gone.
Return(r) ==
    /\ pc' = "idle"
    /\ result' = r
    /\ arg' = <<>>
    /\ saved' = {}
    /\ attempt' = 0

\* An exception leaves every coroutine frame of the call at once.
Raise(e) == Return(e)

\* The call suspends in the await `at`.
Suspend(at) ==
    /\ pc' = at
    /\ result' = "pending"

\* A public coroutine is entered by the idle caller.
Enter(name) ==
    /\ pc = "idle"
    /\ op' = name
    /\ event' = NoEvent
    /\ hist' = CallHist

\* A step of the call in progress, resumed from the await `at`.
Resume(at) ==
    /\ pc = at
    /\ op' = op
    /\ event' = NoEvent

\* ------------------------------------------------- disconnect / reset
\* A reconnect() that takes no copy of the set.
DisconnectLocals_NoSnapshot ==
    /\ saved' = IF op' = "reconnect" /\ pc = "idle" THEN {} ELSE saved
    /\ UNCHANGED <<arg, attempt>>

\* Line 275: reconnect() copies the set on entry, before it calls
\* disconnect(); the other locals are untouched by disconnect().
DisconnectLocals ==
    /\ saved' = IF op' = "reconnect" /\ pc = "idle" THEN subscriptions ELSE saved
    /\ UNCHANGED <<arg, attempt>>

\* A disconnect() that clears the set as reset() does, and a reconnect() that
\* loses it.
AfterDisconnect_Clearing ==
    CASE op' \in {"disconnect", "reset"} ->
            /\ Return("ok")
            /\ subscriptions' = {}
            /\ notification_callbacks' = <<>>
            /\ disconnect_callbacks' = <<>>
            /\ ideal' = {}
            /\ clean' = TRUE
      [] op' = "reconnect" ->
            /\ Suspend("conn_open")
            /\ DisconnectLocals
            /\ subscriptions' = {}
            /\ UNCHANGED <<registries, ghost>>

\* A reset() that clears the set and leaves the observers registered.
AfterDisconnect_KeepsObservers ==
    CASE op' = "disconnect" ->
            /\ Return("ok")
            /\ UNCHANGED <<subscriptions, registries, ghost>>
      [] op' = "reset" ->
            /\ Return("ok")
            /\ subscriptions' = {}
            /\ ideal' = {}
            /\ clean' = TRUE
            /\ UNCHANGED registries
      [] op' = "reconnect" ->
            /\ Suspend("conn_open")
            /\ DisconnectLocals
            /\ UNCHANGED <<subscriptions, registries, ghost>>

\* What follows `await self.disconnect()` up to the next await of the call:
\* disconnect() returns, reset() clears the set and both registries (lines
\* 149-151), reconnect() enters connect() and suspends in ws_connect.
AfterDisconnect ==
    CASE op' = "disconnect" ->
            /\ Return("ok")
            /\ UNCHANGED <<subscriptions, registries, ghost>>
      [] op' = "reset" ->
            /\ Return("ok")
            /\ subscriptions' = {}
            /\ notification_callbacks' = <<>>
            /\ disconnect_callbacks' = <<>>
            /\ ideal' = {}
            /\ clean' = TRUE
      [] op' = "reconnect" ->
            /\ Suspend("conn_open")
            /\ DisconnectLocals
            /\ UNCHANGED <<subscriptions, registries, ghost>>

\* A disconnect() that drops the handle without closing the transport.
CloseSection_NoClose ==
    /\ ws' = None
    /\ AfterDisconnect

\* A disconnect() that objects when there is no handle to drop.
CloseSection_Strict ==
    IF ws # None /\ ~transports[ws].closed
    THEN /\ Suspend("disc_close")
         /\ DisconnectLocals
         /\ UNCHANGED <<ws, subscriptions, registries, ghost>>
    ELSE IF ws = None
    THEN /\ Raise("NotConnected")
         /\ UNCHANGED <<ws, subscriptions, registries, ghost>>
    ELSE /\ ws' = None
         /\ AfterDisconnect

\* Lines 142-144: close the transport if it is open, then drop the handle.
CloseSection ==
    IF ws # None /\ ~transports[ws].closed
    THEN /\ Suspend("disc_close")
         /\ DisconnectLocals
         /\ UNCHANGED <<ws, subscriptions, registries, ghost>>
    ELSE /\ ws' = None
         /\ AfterDisconnect

\* A disconnect() that leaves the loop task alone.
BeginDisconnect_NoWait ==
    /\ connected' = FALSE
    /\ tasks' = tasks
    /\ CloseSection

\* Lines 137-141: clear the flag, cancel the loop if it is not done and wait
\* for it; otherwise go on to the close section without suspending.
BeginDisconnect ==
    /\ connected' = FALSE
    /\ IF ListenTaskPending
       THEN /\ tasks' = [tasks EXCEPT ![listen_task].cancel = TRUE]
            /\ Suspend("disc_wait")
            /\ DisconnectLocals
            /\ UNCHANGED <<ws, subscriptions, registries, ghost>>
       ELSE /\ tasks' = tasks
            /\ CloseSection

CallDisconnect ==
    /\ Enter("disconnect")
    /\ sent' = <<>>
    /\ BeginDisconnect
    /\ UNCHANGED <<connection_id, listen_task, transports>>
    /\ UNCHANGED outside

CallReset ==
    /\ Enter("reset")
    /\ sent' = <<>>
    /\ BeginDisconnect
    /\ UNCHANGED <<connection_id, listen_task, transports>>
    /\ UNCHANGED outside

\* reconnect(), lines 275-276: snapshot, then disconnect().
CallReconnect ==
    /\ Enter("reconnect")
    /\ Len(transports) < MaxTransports
    /\ sent' = <<>>
    /\ BeginDisconnect
    /\ UNCHANGED <<connection_id, listen_task, transports>>
    /\ UNCHANGED outside

\* A disconnect() that cancels the task and goes on without waiting for it.
DiscWait_Unawaited ==
    /\ Resume("disc_wait")
    /\ CloseSection
    /\ UNCHANGED <<connected, connection_id, listen_task, transports, sent, tasks, hist>>
    /\ UNCHANGED outside

\* Line 141: `await self._listen_task` returns once the task is done; only
\* CancelledError is suppressed (line 140), another exception of the task
\* leaves disconnect() there.
DiscWait ==
    /\ Resume("disc_wait")
    /\ ~Live(listen_task)
    /\ IF tasks[listen_task].exc = "none"
       THEN CloseSection
       ELSE /\ Raise(tasks[listen_task].exc)
            /\ UNCHANGED <<ws, subscriptions, registries, ghost>>
    /\ UNCHANGED <<connected, connection_id, listen_task, transports, sent, tasks, hist>>
    /\ UNCHANGED outside

\* Lines 143-144: `await self._ws.close()` returns; the handle is dropped.
DiscClose ==
    /\ Resume("disc_close")
    /\ transports' = Closed(ws)
    /\ ws' = None
    /\ AfterDisconnect
    /\ UNCHANGED <<connected, connection_id, listen_task, sent, tasks, hist>>
    /\ UNCHANGED outside

\* ------------------------------------------------- subscribe / replay
\* subscribe(p) up to its await: the open-transport check of lines 160-161,
\* then the suspension in send_json.
SubscribeEntry(p, todo) ==
    IF NoOpenWs
    THEN Raise("NotConnected")
    ELSE /\ Suspend("sub_send")
         /\ arg' = p
         /\ saved' = todo
         /\ attempt' = 0

\* A reconnect() that replays nothing.
ReplayNext_Skipped(todo) == Return("ok")

\* reconnect(), lines 278-279: the next iteration of `for ... in saved`, in
\* the set's arbitrary order; the call returns when the set is exhausted.
ReplayNext(todo) ==
    IF todo = {}
    THEN Return("ok")
    ELSE \E p \in todo : SubscribeEntry(p, todo \ {p})

\* What follows a successful connect(): connect() returns, reconnect()
\* starts the replay.
AfterConnect ==
    IF op = "connect"
    THEN Return("ok")
    ELSE ReplayNext(saved)

\* --------------------------------------------------------------- connect
\* connect() is entered on a manager that is not connected (its
\* precondition); it suspends in ws_connect.
CallConnect ==
    /\ Enter("connect")
    /\ ~connected
    /\ Len(transports) < MaxTransports
    /\ Suspend("conn_open")
    /\ sent' = <<>>
    /\ UNCHANGED <<mgr, transports, tasks, locals, ghost>>
    /\ UNCHANGED outside

\* How the handshake of the current call ended.
Hs(how) == [hist EXCEPT !.hs = how]

\* Lines 76-83: ws_connect returns a transport, or raises ClientError/OSError
\* (wrapped), or the caller cancels the call.
ConnOpen ==
    /\ Resume("conn_open")
    /\ \E outcome \in {"ok", "error", "cancelled"} :
        CASE outcome = "ok" ->
                /\ transports' = Append(transports, NewTransport)
                /\ ws' = Len(transports) + 1
                /\ Suspend("conn_auth")
                /\ UNCHANGED <<hist, locals>>
          [] outcome = "error" ->
                /\ Raise("ConnectionFailed")
                /\ hist' = Hs("open_failed")
                /\ UNCHANGED <<ws, transports>>
          [] outcome = "cancelled" ->
                /\ Raise("Cancelled")
                /\ hist' = Hs("cancelled")
                /\ UNCHANGED <<ws, transports>>
    /\ UNCHANGED <<connected, connection_id, subscriptions, registries,
                   listen_task, sent, tasks, ghost>>
    /\ UNCHANGED outside

\* Line 97: the handshake frame is sent, or send_json raises, or the caller
\* cancels the call.  Nothing here closes the transport.
ConnAuth ==
    /\ Resume("conn_auth")
    /\ \E outcome \in {"ok", "error", "cancelled"} :
        CASE outcome = "ok" ->
                /\ sent' = Append(sent, HandshakeFrame)
                /\ Suspend("conn_recv")
                /\ attempt' = 1
                /\ UNCHANGED <<hist, arg, saved>>
          [] outcome = "error" ->
                /\ Raise("SendError")
                /\ hist' = [Hs("send_failed") EXCEPT !.send_failed = TRUE]
                /\ UNCHANGED sent
          [] outcome = "cancelled" ->
                /\ Raise("Cancelled")
                /\ hist' = Hs("cancelled")
                /\ UNCHANGED sent
    /\ UNCHANGED <<mgr, transports, tasks, ghost>>
    /\ UNCHANGED outside

\* A failed wait that sets the flag all the same.
NotReady_Connected(how) ==
    /\ transports' = Closed(ws)
    /\ Raise("ConnectionFailed")
    /\ hist' = Hs(how)
    /\ connected' = TRUE
    /\ UNCHANGED <<connection_id, listen_task, tasks>>

\* A failed wait that leaves the transport open.
NotReady_NoClose(how) ==
    /\ Raise("ConnectionFailed")
    /\ hist' = Hs(how)
    /\ UNCHANGED <<connected, connection_id, listen_task, tasks, transports>>

\* Lines 121-123: the wait ended without ready (`how`: a receive timed out,
\* or the iterations ran out): close, then raise.
NotReady(how) ==
    /\ transports' = Closed(ws)
    /\ Raise("ConnectionFailed")
    /\ hist' = Hs(how)
    /\ UNCHANGED <<connected, connection_id, listen_task, tasks>>

\* Lines 116-119 and 125-129: ready was seen: record the identifier, set the
\* flag, create the loop task.
Ready ==
    /\ transports' = [transports EXCEPT ![ws].ready = TRUE]
    /\ connection_id' = ws
    /\ connected' = TRUE
    /\ tasks' = Append(tasks, NewTask)
    /\ listen_task' = Len(tasks) + 1
    /\ hist' = Hs("ready")
    /\ AfterConnect

\* A wait that reads on after such a message.
ClosedDuringAuth_Continues ==
    /\ \E c \in BOOLEAN : transports' = PeerClosed(ws, c)
    /\ Suspend("conn_recv")
    /\ hist' = Hs("close")
    /\ UNCHANGED <<connected, connection_id, listen_task, tasks, locals>>

\* Lines 107-112: a CLOSED / ERROR / CLOSING message during the wait.
ClosedDuringAuth ==
    /\ \E c \in BOOLEAN : transports' = PeerClosed(ws, c)
    /\ Raise("ConnectionFailed")
    /\ hist' = Hs("close")
    /\ UNCHANGED <<connected, connection_id, listen_task, tasks>>

\* An exception of line 115 or 116 leaves connect() as it is.
HandshakeFault(e) ==
    /\ Raise(e)
    /\ hist' = Hs("fault")
    /\ UNCHANGED <<connected, connection_id, listen_task, tasks, transports>>

\* A wait that starts over after its last iteration.
NextAttempt_Restarts ==
    /\ Suspend("conn_recv")
    /\ attempt' = IF attempt < HandshakeAttempts THEN attempt + 1 ELSE 1
    /\ UNCHANGED <<connected, connection_id, listen_task, tasks, transports,
                   arg, saved, hist>>

\* A message that is not the ready status: the next iteration of the wait,
\* or its end after HandshakeAttempts.
NextAttempt ==
    IF attempt < HandshakeAttempts
    THEN /\ Suspend("conn_recv")
         /\ attempt' = attempt + 1
         /\ UNCHANGED <<connected, connection_id, listen_task, tasks, transports,
                        arg, saved, hist>>
    ELSE NotReady("exhausted")

\* What receive() can hand to the ready wait.
HandshakeOutcomes ==
    {"timeout", "close", "ready", "text_other", "non_json", "non_object",
     "binary", "cancelled"}

\* Lines 101-119: the receive of iteration `attempt` returns.
ConnRecv ==
    /\ Resume("conn_recv")
    /\ \E f \in HandshakeOutcomes :
        CASE f = "timeout" -> NotReady("timeout")
          [] f = "close" -> ClosedDuringAuth
          [] f = "ready" -> Ready
          [] f = "text_other" -> NextAttempt
          [] f = "binary" -> NextAttempt
          [] f = "non_json" -> HandshakeFault("JSONDecodeError")
          [] f = "non_object" -> HandshakeFault("AttributeError")
          [] f = "cancelled" ->
                /\ Raise("Cancelled")
                /\ hist' = Hs("cancelled")
                /\ UNCHANGED <<connected, connection_id, listen_task, tasks,
                               transports>>
    /\ UNCHANGED <<ws, sent, subscriptions, registries, ghost>>
    /\ UNCHANGED outside

\* ------------------------------------------------ subscribe/unsubscribe
\* Line 168: set.add.
Add(p) == subscriptions \cup {p}

\* A discard that empties the set.
Discard_All(p) == {}

\* Line 186: set.discard.
Discard(p) == subscriptions \ {p}

CallSubscribe(p) ==
    /\ Enter("subscribe")
    /\ sent' = <<>>
    /\ SubscribeEntry(p, {})
    /\ IF connected /\ ~NoOpenWs /\ clean
       THEN ideal' = ideal \cup {p} /\ clean' = TRUE
       ELSE ideal' = {} /\ clean' = FALSE
    /\ UNCHANGED <<mgr, transports, tasks>>
    /\ UNCHANGED outside

\* A subscribe() that records the pair whether or not the send succeeded.
SubSend_RecordsAnyway ==
    /\ Resume("sub_send")
    /\ \E outcome \in {"ok", "error"} :
        CASE outcome = "ok" ->
                /\ sent' = Append(sent, SubscribeFrame(arg))
                /\ subscriptions' = Add(arg)
                /\ UNCHANGED hist
                /\ IF op = "subscribe" THEN Return("ok") ELSE ReplayNext(saved)
                /\ UNCHANGED ghost
          [] outcome = "error" ->
                /\ Raise("SendError")
                /\ hist' = [hist EXCEPT !.send_failed = TRUE]
                /\ IF op = "subscribe"
                   THEN ideal' = {} /\ clean' = FALSE
                   ELSE UNCHANGED ghost
                /\ subscriptions' = Add(arg)
                /\ UNCHANGED sent
    /\ UNCHANGED <<ws, connected, connection_id, registries, listen_task,
                   transports, tasks>>
    /\ UNCHANGED outside

\* Lines 167-168: send_json returns and the pair is recorded, or it raises.
SubSend ==
    /\ Resume("sub_send")
    /\ \E outcome \in {"ok", "error"} :
        CASE outcome = "ok" ->
                /\ sent' = Append(sent, SubscribeFrame(arg))
                /\ subscriptions' = Add(arg)
                /\ UNCHANGED hist
                /\ IF op = "subscribe" THEN Return("ok") ELSE ReplayNext(saved)
                /\ UNCHANGED ghost
          [] outcome = "error" ->
                /\ Raise("SendError")
                /\ hist' = [hist EXCEPT !.send_failed = TRUE]
                /\ IF op = "subscribe"
                   THEN ideal' = {} /\ clean' = FALSE
                   ELSE UNCHANGED ghost
                /\ UNCHANGED <<sent, subscriptions>>
    /\ UNCHANGED <<ws, connected, connection_id, registries, listen_task,
                   transports, tasks>>
    /\ UNCHANGED outside

\* An unsubscribe() that sends nothing for a pair that is not in the set.
CallUnsubscribe_SkipsAbsent(p) ==
    /\ Enter("unsubscribe")
    /\ sent' = <<>>
    /\ IF NoOpenWs \/ p \notin subscriptions
       THEN Return("ok")
       ELSE Suspend("unsub_send") /\ arg' = p /\ UNCHANGED <<saved, attempt>>
    /\ IF connected /\ ~NoOpenWs /\ clean
       THEN ideal' = ideal \ {p} /\ clean' = TRUE
       ELSE ideal' = {} /\ clean' = FALSE
    /\ UNCHANGED <<mgr, transports, tasks>>
    /\ UNCHANGED outside

\* Lines 178-185: no open transport: return; otherwise suspend in send_json.
CallUnsubscribe(p) ==
    /\ Enter("unsubscribe")
    /\ sent' = <<>>
    /\ IF NoOpenWs
       THEN Return("ok")
       ELSE Suspend("unsub_send") /\ arg' = p /\ UNCHANGED <<saved, attempt>>
    /\ IF connected /\ ~NoOpenWs /\ clean
       THEN ideal' = ideal \ {p} /\ clean' = TRUE
       ELSE ideal' = {} /\ clean' = FALSE
    /\ UNCHANGED <<mgr, transports, tasks>>
    /\ UNCHANGED outside

\* Lines 185-186: send_json returns and the pair is discarded, or it raises.
UnsubSend ==
    /\ Resume("unsub_send")
    /\ \E outcome \in {"ok", "error"} :
        CASE outcome = "ok" ->
                /\ sent' = Append(sent, UnsubscribeFrame(arg))
                /\ subscriptions' = Discard(arg)
                /\ UNCHANGED hist
                /\ Return("ok")
                /\ UNCHANGED ghost
          [] outcome = "error" ->
                /\ Raise("SendError")
                /\ hist' = [hist EXCEPT !.send_failed = TRUE]
                /\ ideal' = {}
                /\ clean' = FALSE
                /\ UNCHANGED <<sent, subscriptions>>
    /\ UNCHANGED <<ws, connected, connection_id, registries, listen_task,
                   transports, tasks>>
    /\ UNCHANGED outside

\* A remove() that drops the last entry of the list, whichever it is.
RECURSIVE RemoveFirst_Last(_, _)
RemoveFirst_Last(cbs, cb) ==
    IF cbs = <<>> THEN <<>> ELSE SubSeq(cbs, 1, Len(cbs) - 1)

\* ------------------------------------------------------------ observers
\* list.remove(x): the first occurrence goes.
RECURSIVE RemoveFirst(_, _)
RemoveFirst(cbs, cb) ==
    IF cbs = <<>> THEN <<>>
    ELSE IF Head(cbs) = cb THEN Tail(cbs)
    ELSE <<Head(cbs)>> \o RemoveFirst(Tail(cbs), cb)

\* `for callback in callbacks: try: callback(...) except Exception: log`,
\* from position i on.  The for statement walks the list itself by index, so
\* a remove() made by the observer at position i moves the observers behind
\* it one place down before the index goes up.  An observer that raises is
\* caught.  The result is the list left and the observers invoked, in order.
RECURSIVE Invoke(_, _)
Invoke(cbs, i) ==
    IF i > Len(cbs) THEN [left |-> cbs, invoked |-> <<>>]
    ELSE LET cb == cbs[i]
             after == IF cb \in Deregistering THEN RemoveFirst(cbs, cb) ELSE cbs
             rest == Invoke(after, i + 1)
         IN  [left |-> rest.left, invoked |-> <<cb>> \o rest.invoked]

\* The same iteration without the try/except: the first observer that
\* raises ends it.
RECURSIVE InvokeUnguarded(_, _)
InvokeUnguarded(cbs, i) ==
    IF i > Len(cbs) THEN [left |-> cbs, invoked |-> <<>>]
    ELSE LET cb == cbs[i]
             after == IF cb \in Deregistering THEN RemoveFirst(cbs, cb) ELSE cbs
             rest == IF cb \in Raising
                     THEN [left |-> after, invoked |-> <<>>]
                     ELSE InvokeUnguarded(after, i + 1)
         IN  [left |-> rest.left, invoked |-> <<cb>> \o rest.invoked]

\* A notification dispatch that does not catch.
NotifyAll_Unguarded == InvokeUnguarded(notification_callbacks, 1)

\* Lines 241-245.
NotifyAll == Invoke(notification_callbacks, 1)

\* A disconnect dispatch that does not catch.
DisconnectAll_Unguarded == InvokeUnguarded(disconnect_callbacks, 1)

\* Lines 260-264.
DisconnectAll == Invoke(disconnect_callbacks, 1)

Registered(cbs) == {cbs[i] : i \in DOMAIN cbs}

\* A synchronous registry call made between two coroutine calls.
Sync ==
    /\ pc = "idle"
    /\ op' = "registry"
    /\ result' = "ok"
    /\ event' = NoEvent
    /\ hist' = CallHist
    /\ sent' = <<>>
    /\ UNCHANGED <<ws, connected, connection_id, subscriptions, listen_task,
                   transports, tasks, pc, locals, ghost>>

RegistryFull ==
    Len(notification_callbacks) + Len(disconnect_callbacks) >= MaxObservers

\* Line 200.
OnNotification(cb) ==
    /\ ~RegistryFull
    /\ Sync
    /\ notification_callbacks' = Append(notification_callbacks, cb)
    /\ UNCHANGED disconnect_callbacks
    /\ UNCHANGED outside

\* Line 216.
OnDisconnect(cb) ==
    /\ ~RegistryFull
    /\ Sync
    /\ disconnect_callbacks' = Append(disconnect_callbacks, cb)
    /\ UNCHANGED notification_callbacks
    /\ UNCHANGED outside

\* Lines 202-203: the capability on_notification returned, used while the
\* observer is registered.
RemoveNotification(cb) ==
    /\ cb \in Registered(notification_callbacks)
    /\ Sync
    /\ notification_callbacks' = RemoveFirst(notification_callbacks, cb)
    /\ UNCHANGED disconnect_callbacks
    /\ UNCHANGED outside

\* Lines 218-219.
RemoveDisconnect(cb) ==
    /\ cb \in Registered(disconnect_callbacks)
    /\ Sync
    /\ disconnect_callbacks' = RemoveFirst(disconnect_callbacks, cb)
    /\ UNCHANGED notification_callbacks
    /\ UNCHANGED outside

\* --------------------------------------------------------- receive loop
\* A `finally` that leaves the flag as it is.
Finalize_KeepsFlag(t, reason) ==
    /\ UNCHANGED connected
    /\ tasks' = [tasks EXCEPT ![t].st = "done", ![t].fin = @ + 1]
    /\ disconnect_callbacks' = DisconnectAll.left
    /\ event' = [kind |-> reason, task |-> t, invoked |-> DisconnectAll.invoked,
                 registered |-> disconnect_callbacks]

\* Lines 258-264, the `finally` of _listen: clear the flag, invoke the
\* disconnect observers; the task is done.
Finalize(t, reason) ==
    /\ connected' = FALSE
    /\ tasks' = [tasks EXCEPT ![t].st = "done", ![t].fin = @ + 1]
    /\ disconnect_callbacks' = DisconnectAll.left
    /\ event' = [kind |-> reason, task |-> t, invoked |-> DisconnectAll.invoked,
                 registered |-> disconnect_callbacks]

\* The task takes its first step: line 225, then the iterator of self._ws is
\* taken and the task suspends in its first receive.  A failed assertion is
\* outside the try block.
ListenStart(t) ==
    /\ tasks[t].st = "created"
    /\ ~tasks[t].cancel
    /\ tasks' = IF ws = None
                THEN [tasks EXCEPT ![t].st = "done", ![t].exc = "AssertionError"]
                ELSE [tasks EXCEPT ![t].st = "running", ![t].ws = ws]
    /\ event' = [kind |-> "started", task |-> t, invoked |-> <<>>, registered |-> <<>>]
    /\ UNCHANGED <<mgr, transports, sent, pc, op, locals, result, hist, ghost>>
    /\ UNCHANGED outside

\* cancel() reaches the task: a task that never ran is cancelled without
\* entering the coroutine; a task suspended in receive gets CancelledError
\* there (line 254) and runs the `finally`.
ListenCancelled(t) ==
    /\ Live(t)
    /\ tasks[t].cancel
    /\ IF tasks[t].st = "created"
       THEN /\ tasks' = [tasks EXCEPT ![t].st = "done"]
            /\ event' = [kind |-> "unstarted", task |-> t, invoked |-> <<>>, registered |-> <<>>]
            /\ UNCHANGED <<connected, disconnect_callbacks>>
       ELSE Finalize(t, "cancelled")
    /\ UNCHANGED <<ws, connection_id, subscriptions, notification_callbacks,
                   listen_task, transports, sent, pc, op, locals, result,
                   hist, ghost>>
    /\ UNCHANGED outside

\* What the iteration of line 228 can hand to the loop.  A transport that is
\* closed only reports the closure.
LoopOutcomes(w) ==
    IF transports[w].closed
    THEN {"close", "eos"}
    ELSE {"notification", "text_other", "non_json", "non_object", "binary",
          "close", "eos", "fault"}

\* Lines 239-245: a notification: every observer of the list is called, a
\* raising one is caught.
Dispatch(t, f) ==
    /\ notification_callbacks' = NotifyAll.left
    /\ event' = [kind |-> f, task |-> t, invoked |-> NotifyAll.invoked,
                 registered |-> notification_callbacks]
    /\ UNCHANGED <<connected, tasks, transports, disconnect_callbacks>>

\* A loop that treats the JSONDecodeError as any other exception.
SkipMalformed_Terminates(t, f) ==
    /\ Finalize(t, f)
    /\ UNCHANGED <<transports, notification_callbacks>>

\* Lines 229-237: json.loads raises JSONDecodeError: log and `continue`.
SkipMalformed(t, f) ==
    /\ event' = [kind |-> f, task |-> t, invoked |-> <<>>, registered |-> <<>>]
    /\ UNCHANGED <<connected, tasks, transports, registries>>

\* A loop that takes such a message for the end of the connection.
Ignore_Disconnects(t, f) ==
    /\ connected' = FALSE
    /\ event' = [kind |-> f, task |-> t, invoked |-> <<>>, registered |-> <<>>]
    /\ UNCHANGED <<tasks, transports, registries>>

\* Lines 228, 239 and 247: a JSON object of another type, or a message that
\* is neither text nor a closure: nothing to do, next message.
Ignore(t, f) ==
    /\ event' = [kind |-> f, task |-> t, invoked |-> <<>>, registered |-> <<>>]
    /\ UNCHANGED <<connected, tasks, transports, registries>>

\* Lines 247-252 and the end of the iteration: the loop is left, the
\* `finally` runs.
PeerEnds(t, f) ==
    /\ \E c \in BOOLEAN : transports' = PeerClosed(tasks[t].ws, c)
    /\ Finalize(t, f)
    /\ UNCHANGED notification_callbacks

\* A loop whose task ends with the exception, after the `finally`.
FaultEnds_Reraises(t, f) ==
    /\ connected' = FALSE
    /\ tasks' = [tasks EXCEPT ![t].st = "done", ![t].fin = @ + 1,
                              ![t].exc = "Exception"]
    /\ disconnect_callbacks' = DisconnectAll.left
    /\ event' = [kind |-> f, task |-> t, invoked |-> DisconnectAll.invoked,
                 registered |-> disconnect_callbacks]
    /\ UNCHANGED <<transports, notification_callbacks>>

\* Lines 256-257: an exception of the receive or of the handling of a
\* message (data.get on a JSON value that is no object) is logged, not
\* raised again; the `finally` runs.
FaultEnds(t, f) ==
    /\ Finalize(t, f)
    /\ UNCHANGED <<transports, notification_callbacks>>

\* Lines 228-257: one message, or the end of the iteration.
ListenRecv(t) ==
    /\ tasks[t].st = "running"
    /\ ~tasks[t].cancel
    /\ \E f \in LoopOutcomes(tasks[t].ws) :
        CASE f = "notification" -> Dispatch(t, f)
          [] f = "non_json" -> SkipMalformed(t, f)
          [] f \in {"text_other", "binary"} -> Ignore(t, f)
          [] f \in {"close", "eos"} -> PeerEnds(t, f)
          [] f \in {"non_object", "fault"} -> FaultEnds(t, f)
    /\ UNCHANGED <<ws, connection_id, subscriptions, listen_task,
                   sent, pc, op, locals, result, hist, ghost>>
    /\ UNCHANGED outside

\* ------------------------------------------------------------ transport
\* Line 79: the transport is opened with a heartbeat; when the heartbeat is
\* not answered, or the connection is lost, the transport turns closed by
\* itself, whatever the manager is doing.
TransportDrops(w) ==
    /\ ~transports[w].closed
    /\ transports' = [transports EXCEPT ![w].closed = TRUE]
    /\ event' = [kind |-> "dropped", task |-> None, invoked |-> <<>>,
                 registered |-> <<>>]
    /\ UNCHANGED <<mgr, sent, tasks, pc, op, locals, result, hist, ghost>>
    /\ UNCHANGED outside

\* ------------------------------------------------------- specification
Next ==
    \/ CallConnect
    \/ ConnOpen
    \/ ConnAuth
    \/ ConnRecv
    \/ CallDisconnect
    \/ CallReset
    \/ CallReconnect
    \/ DiscWait
    \/ DiscClose
    \/ \E p \in Pairs : CallSubscribe(p)
    \/ SubSend
    \/ \E p \in Pairs : CallUnsubscribe(p)
    \/ UnsubSend
    \/ \E cb \in Callbacks : OnNotification(cb)
    \/ \E cb \in Callbacks : OnDisconnect(cb)
    \/ \E cb \in Callbacks : RemoveNotification(cb)
    \/ \E cb \in Callbacks : RemoveDisconnect(cb)
    \/ \E t \in DOMAIN tasks : ListenStart(t)
    \/ \E t \in DOMAIN tasks : ListenCancelled(t)
    \/ \E t \in DOMAIN tasks : ListenRecv(t)
    \/ \E w \in DOMAIN transports : TransportDrops(w)

Spec == Init /\ [][Next]_vars

\* Line 103: every receive of the ready wait is wrapped in
\* wait_for(..., timeout=10.0), so the event loop resumes a connect() that
\* is suspended there: with a frame, or with TimeoutError after 10 seconds.
HandshakeFairness == WF_vars(ConnRecv)

\* The manager under an event loop that honours the receive timeout.
LiveSpec == Spec /\ HandshakeFairness

\* ====================================================== reconnect_delay
\* Lines 281-295, a static method without state.  Seconds are counted in
\* units of 1/Unit; a float keeps Precision significant bits (53 in the
\* build), and random.random() returns a multiple of 2^-Precision in [0, 1).
Precision == 4

\* The exponent from which a float is out of range: float(2**1024) raises
\* OverflowError (sys.float_info.max_exp).
FloatMaxExp == 1024

\* Line 21.
MAX_RECONNECT_DELAY == 16

\* The attempt counts tried, besides the large ones: 0..MaxAttempts.
MaxAttempts == 6

RECURSIVE Pow2(_)
Pow2(n) == IF n = 0 THEN 1 ELSE 2 * Pow2(n - 1)

Unit == Pow2(Precision + 1)

Attempts == (0..MaxAttempts) \cup {100, FloatMaxExp - 1, FloatMaxExp}

Jitters == 0..(Pow2(Precision) - 1)

\* x rounded to a multiple of step, a tie going to the even multiple.
RoundHalfEven(x, step) ==
    LET lo == (x \div step) * step
        r == x - lo
    IN  IF 2 * r < step THEN lo
        ELSE IF 2 * r > step THEN lo + step
        ELSE IF (lo \div step) % 2 = 0 THEN lo ELSE lo + step

\* The float nearest to x, for x in [1/2, 2): floats are 2^-Precision
\* apart below 1 and 2^-(Precision-1) apart from 1 on.
Float(x) == IF x < Unit THEN RoundHalfEven(x, 2) ELSE RoundHalfEven(x, 4)

\* `0.5 * random.random() + 0.75`: the product is exact, the sum is
\* rounded.
JitterFactor(k) == Float(k + 3 * (Unit \div 4))

\* From this exponent on 2**attempts times the factor is far above the cap
\* and is not told apart from 2**Saturation times the factor.
Saturation == 8

\* `1.0 * (2**attempts) * factor` for attempts below FloatMaxExp: a power
\* of two times a float, exact.
Scaled(n, factor) ==
    IF n < Saturation THEN Pow2(n) * factor ELSE Pow2(Saturation) * factor

Min(a, b) == IF a <= b THEN a ELSE b

\* Lines 291-295.  2**attempts is an int of any size; `1.0 * int` converts
\* it to a float, which raises OverflowError from 2**1024 on.
reconnect_delay(n, k) ==
    IF n >= FloatMaxExp
    THEN [called |-> TRUE, raised |-> "OverflowError", value |-> 0]
    ELSE [called |-> TRUE, raised |-> "none",
          value |-> Min(Scaled(n, JitterFactor(k)), MAX_RECONNECT_DELAY * Unit)]

\* A caller's attempt counter, anywhere in its range.
DelayInit ==
    /\ ManagerInit
    /\ NoClient
    /\ NoCapabilities
    /\ attempts \in Attempts
    /\ jitter = 0
    /\ delay = NotCalled

\* The caller asks for the delay of its attempt.
CallReconnectDelay ==
    /\ ~delay.called
    /\ \E k \in Jitters :
          /\ jitter' = k
          /\ delay' = reconnect_delay(attempts, k)
    /\ UNCHANGED <<attempts, manager, client, capabilities>>

\* The caller moves its counter: up after a failed reconnect, to zero after
\* a successful one, or anywhere for a caller that keeps it differently.
NextAttemptCount ==
    /\ delay.called
    /\ \E n \in Attempts : attempts' = n
    /\ jitter' = 0
    /\ delay' = NotCalled
    /\ UNCHANGED <<manager, client, capabilities>>

DelayNext ==
    \/ CallReconnectDelay
    \/ NextAttemptCount

DelaySpec == DelayInit /\ [][DelayNext]_vars

\* =========================================================== REST client
\* client.py defines LevitonClient and base_client.py BaseLevitonClient; the
\* package exports both and neither derives from the other.
Classes == {"LevitonClient", "BaseLevitonClient"}

\* Tokens and user ids are non-empty strings, so `if self._token` is a
\* test against None.
Tokens == {"tok_a", "tok_b"}
UserIds == {"user_1", "user_2"}

\* What the session answers with other than success: an HTTP status that
\* _request turns into an exception, an exception of aiohttp, any other
\* exception, or the caller's cancellation.
Failures ==
    {"401", "406", "408", "4xx", "5xx", "ClientError", "Exception",
     "Cancelled"}

\* The login responses: the failures, or 200 with the token record.
LoginResponses ==
    {[status |-> s] : s \in Failures} \cup
    [status : {"200"}, id : Tokens, userId : UserIds, ttl : {"3600"},
     created : {"2026-01-01"}, user : {"profile", "{}"}]

\* The logout responses: the body does not matter (expect_json=False).
LogoutStatuses == {"200", "204"} \cup Failures

\* _request: the exception a response ends in ("none": it returns).  A 401
\* is the expired token only for a request sent with the token; the
\* except clauses at its end re-raise LevitonError and wrap the rest;
\* CancelledError is no Exception and passes.
Raised(status, authenticated) ==
    CASE status = "406" -> "LevitonTwoFactorRequired"
      [] status = "408" -> "LevitonInvalidCode"
      [] status = "401" -> IF authenticated /\ token # Unset
                           THEN "LevitonTokenExpired"
                           ELSE "LevitonAuthError"
      [] status = "5xx" -> "LevitonConnectionError"
      [] status = "4xx" -> "LevitonError"
      [] status = "ClientError" -> "LevitonConnectionError"
      [] status = "Exception" -> "LevitonConnectionError"
      [] status = "Cancelled" -> "CancelledError"
      [] OTHER -> "none"

\* exceptions.py: every exception of the library derives from LevitonError.
LevitonErrors ==
    {"LevitonError", "LevitonAuthError", "LevitonTwoFactorRequired",
     "LevitonInvalidCode", "LevitonConnectionError", "LevitonTokenExpired"}

\* What the except clause of logout() catches: client.py line 152
\* (`except LevitonConnectionError`), base_client.py line 147
\* (`except LevitonError`).
CaughtByLogout ==
    IF cls = "LevitonClient" THEN {"LevitonConnectionError"} ELSE LevitonErrors

\* A client as its constructor leaves it, of either class.
ClientInit ==
    /\ ManagerInit
    /\ NoBackoff
    /\ NoCapabilities
    /\ cls \in Classes
    /\ token = Unset
    /\ user_id = Unset
    /\ auth_token = NoAuthToken
    /\ response = [status |-> "none"]
    /\ cpc = "idle"
    /\ cop = "none"
    /\ cresult = "ok"
    /\ websocket = NoWebsocket

\* A method of the client is entered by its idle caller.
ClientEnter(name) ==
    /\ cpc = "idle"
    /\ cop' = name
    /\ response' = [status |-> "none"]
    /\ UNCHANGED <<cls, manager, backoff, capabilities>>

\* A step of the call in progress, resumed from the await `at`.
ClientResume(at) ==
    /\ cpc = at
    /\ cpc' = "idle"
    /\ UNCHANGED <<cls, cop, manager, backoff, capabilities>>

\* login() up to its await in _request.
CallLogin ==
    /\ ClientEnter("login")
    /\ cpc' = "login_request"
    /\ cresult' = "pending"
    /\ UNCHANGED <<token, user_id, auth_token, websocket>>

\* login(): _request returns the record, which is stored, or raises.
LoginResponse ==
    /\ ClientResume("login_request")
    /\ \E r \in LoginResponses :
          /\ response' = r
          /\ IF Raised(r.status, FALSE) = "none"
             THEN /\ token' = r.id
                  /\ user_id' = r.userId
                  /\ auth_token' = [token |-> r.id, ttl |-> r.ttl,
                                    created |-> r.created,
                                    user_id |-> r.userId, user |-> r.user]
                  /\ cresult' = "ok"
             ELSE /\ cresult' = Raised(r.status, FALSE)
                  /\ UNCHANGED <<token, user_id, auth_token>>
    /\ UNCHANGED websocket

\* restore_session(token, user_id).
RestoreSession(t, u) ==
    /\ ClientEnter("restore_session")
    /\ token' = t
    /\ user_id' = u
    /\ auth_token' = [token |-> t, ttl |-> "0", created |-> "",
                      user_id |-> u, user |-> "{}"]
    /\ cresult' = "ok"
    /\ UNCHANGED <<cpc, websocket>>

\* logout() up to its await: nothing to do without a token.
CallLogout ==
    /\ ClientEnter("logout")
    /\ IF token # Unset
       THEN cpc' = "logout_request" /\ cresult' = "pending"
       ELSE cpc' = "idle" /\ cresult' = "ok"
    /\ UNCHANGED <<token, user_id, auth_token, websocket>>

\* logout(): _request returns or raises; the except clause catches what it
\* names; the finally clause clears the three fields either way.
LogoutResponse ==
    /\ ClientResume("logout_request")
    /\ \E s \in LogoutStatuses :
          /\ response' = [status |-> s]
          /\ cresult' = IF Raised(s, FALSE) \in {"none"} \cup CaughtByLogout
                        THEN "ok"
                        ELSE Raised(s, FALSE)
    /\ token' = Unset
    /\ user_id' = Unset
    /\ auth_token' = NoAuthToken
    /\ UNCHANGED websocket

\* create_websocket(): a method of BaseLevitonClient alone (base_client.py
\* lines 154-174); the attribute lookup on a LevitonClient raises
\* AttributeError.
CreateWebsocket ==
    /\ ClientEnter("create_websocket")
    /\ IF cls = "LevitonClient"
       THEN cresult' = "AttributeError" /\ websocket' = NoWebsocket
       ELSE IF auth_token = NoAuthToken
       THEN cresult' = "LevitonAuthError" /\ websocket' = NoWebsocket
       ELSE /\ cresult' = "ok"
            /\ websocket' = [token |-> auth_token.token,
                             user_id |-> auth_token.user_id,
                             user |-> auth_token.user,
                             token_created |-> auth_token.created,
                             token_ttl |-> auth_token.ttl]
    /\ UNCHANGED <<cpc, token, user_id, auth_token>>

ClientNext ==
    \/ CallLogin
    \/ LoginResponse
    \/ \E t \in Tokens, u \in UserIds : RestoreSession(t, u)
    \/ CallLogout
    \/ LogoutResponse
    \/ CreateWebsocket

ClientSpec == ClientInit /\ [][ClientNext]_vars

\* ===================================================== the capabilities
\* on_notification / on_disconnect return a closure `remove` over the
\* callback (lines 202-205, 218-221).  Here the closures are followed on a
\* manager that stays disconnected: which registry each belongs to, its
\* callback, how often it was called, and whether its registration is gone
\* (it was called before, or reset() cleared the registries).
MaxCapabilities == 3
MaxCalls == 2

RegistryOf(kind) ==
    IF kind = "notification" THEN notification_callbacks ELSE disconnect_callbacks

RegistryInit ==
    /\ ManagerInit
    /\ NoClient
    /\ NoBackoff
    /\ capabilities = <<>>

\* A synchronous call on the registries that ends with `r`.
SyncEnding(r) ==
    /\ pc = "idle"
    /\ op' = "registry"
    /\ result' = r
    /\ event' = NoEvent
    /\ hist' = CallHist
    /\ sent' = <<>>
    /\ UNCHANGED <<ws, connected, connection_id, subscriptions, listen_task,
                   transports, tasks, pc, locals, ghost>>
    /\ UNCHANGED <<client, backoff>>

\* on_notification(cb) / on_disconnect(cb): append, return the closure.
Register(kind, cb) ==
    /\ Len(capabilities) < MaxCapabilities
    /\ SyncEnding("ok")
    /\ IF kind = "notification"
       THEN /\ notification_callbacks' = Append(notification_callbacks, cb)
            /\ UNCHANGED disconnect_callbacks
       ELSE /\ disconnect_callbacks' = Append(disconnect_callbacks, cb)
            /\ UNCHANGED notification_callbacks
    /\ capabilities' = Append(capabilities,
            [registry |-> kind, callback |-> cb, calls |-> 0, spent |-> FALSE])

\* The callback of capability c is in its registry.
Present(c) == c.callback \in Registered(RegistryOf(c.registry))

\* remove(): `list.remove(callback)` takes out the first entry equal to the
\* callback and raises ValueError when there is none.
Remove(i) ==
    /\ capabilities[i].calls < MaxCalls
    /\ SyncEnding(IF Present(capabilities[i]) THEN "ok" ELSE "ValueError")
    /\ IF ~Present(capabilities[i])
       THEN UNCHANGED registries
       ELSE IF capabilities[i].registry = "notification"
       THEN /\ notification_callbacks' =
                   RemoveFirst(notification_callbacks, capabilities[i].callback)
            /\ UNCHANGED disconnect_callbacks
       ELSE /\ disconnect_callbacks' =
                   RemoveFirst(disconnect_callbacks, capabilities[i].callback)
            /\ UNCHANGED notification_callbacks
    /\ capabilities' = [capabilities EXCEPT ![i].calls = @ + 1,
                                            ![i].spent = TRUE]

\* reset() on the disconnected manager: disconnect() finds no task and no
\* transport, then lines 149-151 clear the set and both registries.
ResetRegistries ==
    /\ Enter("reset")
    /\ sent' = <<>>
    /\ BeginDisconnect
    /\ capabilities' = [i \in DOMAIN capabilities |->
                            [capabilities[i] EXCEPT !.spent = TRUE]]
    /\ UNCHANGED <<connection_id, listen_task, transports>>
    /\ UNCHANGED <<client, backoff>>

RegistryNext ==
    \/ \E kind \in {"notification", "disconnect"}, cb \in Callbacks :
          Register(kind, cb)
    \/ \E i \in DOMAIN capabilities : Remove(i)
    \/ ResetRegistries

RegistrySpec == RegistryInit /\ [][RegistryNext]_vars

\* ================================================== the retrying caller
\* reconnect() (lines 266-279) under a caller that connects, subscribes
\* while the first connection is up, and from the first loss on calls
\* reconnect() again whenever the manager is not connected or the last
\* reconnect() raised.  Transports fail as in Spec, except the last one the
\* bound allows: that one accepts the handshake and the sends and stays up.
RetryTransports == 3

\* The transport that accepts is open.
Accepting == Len(transports) = RetryTransports

\* The first connect(), repeated while ws_connect has never succeeded.
RetryConnect == transports = <<>> /\ CallConnect

\* subscribe() while the first connection is up.
RetrySubscribe(p) == connected /\ Len(transports) = 1 /\ CallSubscribe(p)

\* Lines 275-276, entered by the caller's retry rule.
RetryReconnect ==
    /\ transports # <<>>
    /\ Len(transports) < RetryTransports
    /\ ~connected \/ (op = "reconnect" /\ result # "ok")
    /\ Enter("reconnect")
    /\ sent' = <<>>
    /\ BeginDisconnect
    /\ UNCHANGED <<connection_id, listen_task, transports>>
    /\ UNCHANGED outside

\* Line 97 on the accepting transport: the send succeeds.
RetryConnAuth == ConnAuth /\ (Accepting => pc' = "conn_recv")

\* Lines 101-119 on the accepting transport: the ready frame arrives.
RetryConnRecv == ConnRecv /\ (Accepting => hist'.hs = "ready")

\* Line 167 on the accepting transport: the send succeeds.
RetrySubSend == SubSend /\ (Accepting => result' # "SendError")

\* Lines 228-252 on the accepting transport: messages, no closure, no fault.
RetryListenRecv(t) ==
    /\ ListenRecv(t)
    /\ tasks[t].ws = RetryTransports =>
           event'.kind \in {"notification", "text_other", "non_json", "binary"}

\* The transports before the accepting one may be lost at any time.
RetryTransportDrops(w) == w # RetryTransports /\ TransportDrops(w)

\* The caller's coroutine: one of these is enabled whenever it can go on.
RetryCaller ==
    \/ RetryConnect
    \/ ConnOpen
    \/ RetryConnAuth
    \/ RetryConnRecv
    \/ \E p \in Pairs : RetrySubscribe(p)
    \/ RetrySubSend
    \/ RetryReconnect
    \/ DiscWait
    \/ DiscClose

\* The receive loops' tasks.
RetryLoops ==
    \/ \E t \in DOMAIN tasks : ListenStart(t)
    \/ \E t \in DOMAIN tasks : ListenCancelled(t)
    \/ \E t \in DOMAIN tasks : RetryListenRecv(t)

RetryNext ==
    \/ RetryCaller
    \/ RetryLoops
    \/ \E w \in DOMAIN transports : RetryTransportDrops(w)

\* The event loop runs every task that is ready: the caller's coroutine
\* goes on, and so does a loop task that was cancelled or has a message (the
\* caller waits for it in line 141).
RetryFairness == WF_vars(RetryCaller) /\ WF_vars(RetryLoops)

RetrySpec == Init /\ [][RetryNext]_vars /\ RetryFairness

\* ================================================================ claims

\* The call `name` has just ended: no step has been taken since, not even by
\* the receive loop.
Returned(name) == pc = "idle" /\ op = name /\ event = NoEvent

\* The frames of `frames` sent on transport w.
OnTransport(frames, w) == \A i \in DOMAIN frames : frames[i].on = w

\* The subscribe frames among `frames`, as a sequence of pairs.
RECURSIVE Subscribed(_)
Subscribed(frames) ==
    IF frames = <<>> THEN <<>>
    ELSE IF Head(frames).type = "subscribe"
         THEN <<Head(frames).subscription>> \o Subscribed(Tail(frames))
         ELSE Subscribed(Tail(frames))

\* `seq` lists every element of `set` exactly once and nothing else.
ListsOnce(seq, set) ==
    /\ Len(seq) = Cardinality(set)
    /\ {seq[i] : i \in DOMAIN seq} = set

\* C1: disconnect(), reconnect(), connect() (failed or not), the registry
\* calls and every step of the receive loop taken meanwhile leave
\* `subscriptions` equal to the set held when the call started; subscribe()
\* never shrinks it.  Only unsubscribe() and reset() remove entries.
C1_SubscriptionsSurvive ==
    /\ op \notin {"subscribe", "unsubscribe", "reset"} => subscriptions = hist.pre_subs
    /\ op = "subscribe" => hist.pre_subs \subseteq subscriptions

\* C1 witness: disconnect() has returned on a manager that held subscriptions
\* and whose loop it cancelled.
C1_Witness ==
    /\ pc = "idle" /\ op = "disconnect"
    /\ subscriptions # {}
    /\ hist.pre_connected
    /\ listen_task # None /\ tasks[listen_task].fin = 1

\* What C2 promises of a reconnect() that has returned: one handshake frame
\* then one subscribe frame per saved pair, all on the new transport; the
\* flag set; the set as before.
ReconnectRestored ==
    /\ result = "ok"
    /\ connected
    /\ subscriptions = hist.pre_subs
    /\ ws # None /\ ws > hist.pre_transports
    /\ OnTransport(sent, ws)
    /\ sent # <<>> /\ Head(sent).type = "handshake"
    /\ Len(sent) = 1 + Cardinality(hist.pre_subs)
    /\ ListsOnce(Subscribed(sent), hist.pre_subs)

\* reconnect() is over, its handshake reached ready, none of its sends
\* raised and no subscribe of the replay was refused for a closed transport
\* (line 161, the only origin of that error).
ReconnectWentThrough ==
    /\ Returned("reconnect")
    /\ hist.hs = "ready"
    /\ ~hist.send_failed
    /\ result # "NotConnected"

\* C2 as stated: whenever the handshake of reconnect() succeeds and all
\* sends succeed, reconnect() returns with the frames sent, connected true
\* and the set restored.
C2_Original == ReconnectWentThrough => ReconnectRestored

\* C2 amended: the same, provided the receive loop started by this
\* reconnect() has not terminated before reconnect() returns.
C2_ReconnectReplays ==
    (ReconnectWentThrough /\ Live(listen_task)) => ReconnectRestored

\* C2 witness: a reconnect() that replayed two pairs has returned.
C2_Witness ==
    /\ ReconnectWentThrough /\ Live(listen_task)
    /\ Cardinality(hist.pre_subs) = 2
    /\ Len(sent) = 3

\* C3: when connect() fails inside reconnect(), reconnect() ends with that
\* error (the connection-failed error when the transport could not be
\* opened, the ready wait ran out or the transport closed in the handshake),
\* has sent no subscribe frame, and leaves the set as it was and connected
\* false.
C3_FailedReconnectKeepsSet ==
    (Returned("reconnect") /\ hist.hs # "ready") =>
        /\ result \notin {"ok", "pending"}
        /\ hist.hs \in {"open_failed", "timeout", "exhausted", "close"}
              => result = "ConnectionFailed"
        /\ Subscribed(sent) = <<>>
        /\ subscriptions = hist.pre_subs
        /\ ~connected

\* C3 witness: such a failed reconnect() on a manager that was connected with
\* two subscriptions.
C3_Witness ==
    /\ Returned("reconnect")
    /\ hist.hs = "timeout"
    /\ hist.pre_connected
    /\ Cardinality(subscriptions) = 2

\* C4: as long as every subscribe/unsubscribe call was made on a connected
\* manager (flag set, transport open) and its send succeeded,
\* `subscriptions` is the set the calls denote, from the empty set on.
C4_SetSemantics ==
    (pc = "idle" /\ clean) => subscriptions = ideal

\* C4 witness: an unsubscribe of an absent pair has returned after its frame
\* was sent, with another pair subscribed.
C4_Witness ==
    /\ pc = "idle" /\ clean /\ op = "unsubscribe"
    /\ result = "ok"
    /\ sent # <<>> /\ sent[1].subscription \notin hist.pre_subs
    /\ subscriptions # {}

C6_UnsubscribeNoopWhenDisconnected ==
    (Returned("unsubscribe") /\ ~hist.pre_connected) =>
        /\ result = "ok"
        /\ sent = <<>>
        /\ subscriptions = hist.pre_subs

\* The ways a receive loop that has started ends.
Terminations == {"close", "eos", "non_object", "fault", "cancelled"}

\* C7 as stated: when a receive loop ends, whatever ended it, connected is
\* false and the disconnect observers registered at that moment have each
\* been invoked once, in registration order; no loop that started has ended
\* without this finalization and none has run it twice.
C7_LoopEndFinalizes ==
    /\ event.kind \in Terminations =>
          /\ ~connected
          /\ event.invoked = event.registered
          /\ tasks[event.task].st = "done"
    /\ \A t \in DOMAIN tasks :
          (tasks[t].st = "done" /\ tasks[t].ws # None) => tasks[t].fin = 1

\* The tasks that are not done.
LiveTasks == {t \in DOMAIN tasks : Live(t)}

\* C8: at most one receive-loop task is not done at any time; while
\* disconnect() closes the transport, and while connect() runs, none is; the
\* transport a live loop reads has not been closed by the manager.
C8_OneLoop ==
    /\ Cardinality(LiveTasks) <= 1
    /\ pc \in {"disc_close", "conn_open", "conn_auth", "conn_recv"} => LiveTasks = {}
    /\ \A t \in LiveTasks :
          tasks[t].ws # None => transports[tasks[t].ws].nclose = 0

\* C8 witness: a second loop runs after disconnect() cancelled the first one
\* while it was running.
C8_Witness ==
    /\ Len(tasks) = 2
    /\ tasks[1].st = "done" /\ tasks[1].cancel /\ tasks[1].fin = 1
    /\ tasks[2].st = "running"

\* C9: when the ready wait ends without ready (a receive timed out, or
\* HandshakeAttempts messages came and none was ready), connect() has closed
\* the transport it opened, ends with the connection-failed error, has
\* created no task and leaves connected false.
C9_NoReadyFails ==
    (pc = "idle" /\ op \in {"connect", "reconnect"}
       /\ hist.hs \in {"timeout", "exhausted"}) =>
        /\ result = "ConnectionFailed"
        /\ ws # None /\ ws > hist.pre_transports
        /\ transports[ws].closed /\ transports[ws].nclose = 1
        /\ Len(tasks) = hist.pre_tasks
        /\ ~connected

\* C9 witness: connect() has failed after HandshakeAttempts messages.
C9_Witness ==
    /\ pc = "idle" /\ op = "connect"
    /\ hist.hs = "exhausted"

\* C10: once a CLOSED / ERROR / CLOSING message was received in the ready
\* wait, connect() is over (it reads no further message), the call has ended
\* with the connection-failed error, no task was created and connected is
\* false.
C10_ClosedDuringAuthFails ==
    hist.hs = "close" =>
        /\ pc = "idle"
        /\ result = "ConnectionFailed"
        /\ Len(tasks) = hist.pre_tasks
        /\ ~connected

\* C10 witness: the handshake of a reconnect() has met such a message.
C10_Witness ==
    /\ hist.hs = "close"
    /\ op = "reconnect"
    /\ hist.pre_connected

\* C11: when disconnect() has returned, no receive-loop task is running, the
\* manager holds no transport handle, connected is false, and the transport
\* held when the call started is closed and was closed by the manager at
\* most once (not at all when it had closed by itself).
C11_DisconnectReleases ==
    (pc = "idle" /\ op = "disconnect" /\ result = "ok") =>
        /\ LiveTasks = {}
        /\ ws = None
        /\ ~connected
        /\ hist.pre_ws # None =>
              /\ transports[hist.pre_ws].closed
              /\ transports[hist.pre_ws].nclose <= 1

\* C11 witness: disconnect() has returned on a manager that was connected:
\* it cancelled the running loop, which ran its `finally`, and closed the
\* transport once.
C11_Witness ==
    /\ pc = "idle" /\ op = "disconnect" /\ result = "ok"
    /\ hist.pre_connected
    /\ hist.pre_ws # None /\ transports[hist.pre_ws].nclose = 1
    /\ tasks[listen_task].cancel /\ tasks[listen_task].fin = 1

\* A manager that is disconnected: it never connected, or disconnect() has
\* returned since: no handle, the flag clear, no loop task pending.
AlreadyDisconnected ==
    /\ ws = None
    /\ ~connected
    /\ ~ListenTaskPending

\* C12: disconnect() leaves the manager disconnected, and a disconnect()
\* called on a disconnected manager returns at once without error and
\* leaves every field of the manager, every transport and every task as
\* they were; no observer is invoked.
C12_DisconnectIdempotent ==
    /\ []((pc = "idle" /\ op = "disconnect" /\ result = "ok")
            => AlreadyDisconnected)
    /\ [][(CallDisconnect /\ AlreadyDisconnected) =>
            /\ pc' = "idle"
            /\ result' = "ok"
            /\ event' = NoEvent
            /\ UNCHANGED <<mgr, transports, tasks>>]_vars

\* C12 witness: a second disconnect() has returned on a manager that an
\* earlier disconnect() had left disconnected, its set not empty.
C12_Witness ==
    /\ pc = "idle" /\ op = "disconnect" /\ result = "ok"
    /\ hist.pre_ws = None /\ ~hist.pre_connected
    /\ Len(tasks) = 1 /\ tasks[1].cancel /\ tasks[1].st = "done"
    /\ transports[1].nclose = 1
    /\ subscriptions # {}

\* C13: when reset() has returned, connected is false, the set is empty and
\* both observer lists are empty; and whatever is dispatched, at any time,
\* invokes only observers that are in the list at that moment, so that an
\* observer registered before the reset() is not invoked after it.
C13_ResetClears ==
    /\ (pc = "idle" /\ op = "reset" /\ result = "ok") =>
          /\ ~connected
          /\ subscriptions = {}
          /\ notification_callbacks = <<>>
          /\ disconnect_callbacks = <<>>
          /\ LiveTasks = {}
    /\ \A i \in DOMAIN event.invoked :
          event.invoked[i] \in Registered(event.registered)

\* C13 witness: reset() has returned on a manager that was connected, with
\* subscriptions and MaxObservers observers registered.
C13_Witness ==
    /\ pc = "idle" /\ op = "reset" /\ result = "ok"
    /\ hist.pre_connected
    /\ hist.pre_subs # {}
    /\ hist.pre_observers = MaxObservers

\* In the dispatch ev, an observer that raises is followed by the observer
\* registered next: whenever the observer at position i raises, and no
\* observer up to i has changed the list, the first i + 1 observers of the
\* list are the first i + 1 invoked.
AfterRaising(ev) ==
    \A i \in 1..(Len(ev.registered) - 1) :
        (/\ ev.registered[i] \in Raising
         /\ \A k \in 1..i : ev.registered[k] \notin Deregistering) =>
            /\ Len(ev.invoked) >= i + 1
            /\ \A k \in 1..(i + 1) : ev.invoked[k] = ev.registered[k]

\* C14: in every notification dispatch a notification observer that raises
\* is followed by the observer registered after it, and after the dispatch
\* the loop is still running, its `finally` not entered.
C14_RaisingNotificationObserver ==
    event.kind = "notification" =>
        /\ AfterRaising(event)
        /\ tasks[event.task].st = "running"
        /\ tasks[event.task].fin = 0

\* C14 witness: a notification was dispatched to a raising observer, then to
\* the one registered after it.
C14_Witness ==
    /\ event.kind = "notification"
    /\ event.registered = <<"cb2", "cb1">>
    /\ event.invoked = <<"cb2", "cb1">>

\* a is b with some elements left out, the order kept.
RECURSIVE SubSeqOf(_, _)
SubSeqOf(a, b) ==
    IF a = <<>> THEN TRUE
    ELSE IF b = <<>> THEN FALSE
    ELSE IF Head(a) = Head(b) THEN SubSeqOf(Tail(a), Tail(b))
    ELSE SubSeqOf(a, Tail(b))

\* C15: at the finalization of a loop the disconnect observers are invoked
\* in the order of the list (all of them, in that order, when none of them
\* changes the list), and an observer that raises is followed by the
\* observer registered after it.
C15_DisconnectObserversInOrder ==
    event.kind \in Terminations =>
        /\ SubSeqOf(event.invoked, event.registered)
        /\ (\A k \in DOMAIN event.registered :
                event.registered[k] \notin Deregistering)
              => event.invoked = event.registered
        /\ AfterRaising(event)

\* C15 witness: a loop ended by a fault has invoked a raising disconnect
\* observer, then the one registered after it.
C15_Witness ==
    /\ event.kind = "fault"
    /\ event.registered = <<"cb2", "cb1">>
    /\ event.invoked = <<"cb2", "cb1">>

\* No observer of the list cbs changes the list when invoked.
NoneDeregisters(cbs) == \A k \in DOMAIN cbs : cbs[k] \notin Deregistering

\* C16: a text frame that is not JSON invokes no observer and leaves the
\* loop running; handling it changes nothing in the manager, the transports
\* or the tasks; and a notification frame that the same loop receives next
\* is dispatched to the observers of the list, once each.
C16_MalformedFrameSkipped ==
    /\ [](event.kind = "non_json" =>
            /\ event.invoked = <<>>
            /\ tasks[event.task].st = "running"
            /\ tasks[event.task].fin = 0)
    /\ [][event'.kind = "non_json" =>
            UNCHANGED <<mgr, transports, tasks, sent, pc, result>>]_vars
    /\ [][(/\ event.kind = "non_json"
           /\ event'.kind = "notification"
           /\ event'.task = event.task) =>
            /\ event'.registered = notification_callbacks
            /\ NoneDeregisters(notification_callbacks)
                  => event'.invoked = notification_callbacks]_vars

\* C16 witness: a running loop has skipped such a frame while connected,
\* with MaxObservers notification observers registered.
C16_Witness ==
    /\ event.kind = "non_json"
    /\ connected
    /\ Len(notification_callbacks) = MaxObservers
    /\ tasks[event.task].st = "running"

\* C17 as stated: for each notification frame the loop receives, every
\* observer in the list at that moment is invoked once, in list order,
\* within the handling of that frame (the loop is still running after it).
C17_EveryObserverOnce ==
    event.kind = "notification" =>
        /\ event.invoked = event.registered
        /\ tasks[event.task].st = "running"

\* C18: a text frame that is a JSON object of a type other than
\* "notification" invokes no observer, leaves the loop running, and its
\* handling changes neither connected nor any other field of the manager,
\* nor a transport, nor a task.
C18_OtherTypeIgnored ==
    /\ [](event.kind = "text_other" =>
            /\ event.invoked = <<>>
            /\ event.registered = <<>>
            /\ Live(event.task)
            /\ tasks[event.task].fin = 0)
    /\ [][event'.kind = "text_other" =>
            /\ connected' = connected
            /\ UNCHANGED <<registries, subscriptions, ws, listen_task>>
            /\ UNCHANGED <<transports, tasks>>]_vars

\* C18 witness: a running loop has ignored such a frame while connected,
\* with an observer in each list.
C18_Witness ==
    /\ event.kind = "text_other"
    /\ connected
    /\ Len(notification_callbacks) = 1 /\ Len(disconnect_callbacks) = 1
    /\ tasks[event.task].st = "running"

\* C19: when an exception other than the cancellation is raised while the
\* loop waits for a message or handles one, the task ends without an
\* exception of its own, connected is false, and the `finally` has run
\* once, invoking the disconnect observers as the same list would be
\* invoked after a close message; no task that has run ends with an
\* exception.
C19_FaultEndsLoopQuietly ==
    /\ event.kind \in {"fault", "non_object"} =>
          /\ tasks[event.task].st = "done"
          /\ tasks[event.task].exc = "none"
          /\ tasks[event.task].fin = 1
          /\ ~connected
          /\ event.invoked = Invoke(event.registered, 1).invoked
    /\ \A t \in DOMAIN tasks : tasks[t].exc = "none"

\* C19 witness: a loop ended by the exception of a text frame that is JSON
\* but no object, with two disconnect observers invoked.
C19_Witness ==
    /\ event.kind = "non_object"
    /\ event.invoked = <<"cb1", "cb2">>
    /\ ~connected

\* C20 as stated: unsubscribe(), disconnect() and reset() never end with an
\* error.
C20_OnlyThreeCanFail ==
    (pc = "idle" /\ op \in {"unsubscribe", "disconnect", "reset"}) =>
        result = "ok"

\* C21: subscribe() records after it has sent: while the send is pending
\* the set is as it was when the call started; the call has changed the set
\* only if it ended without error, having sent one subscribe frame, and
\* then by adding the pair of that frame; when the send raised, the call
\* ended with that error and the set is as it was.
C21_SendThenRecord ==
    op = "subscribe" =>
        /\ pc = "sub_send" => (subscriptions = hist.pre_subs /\ sent = <<>>)
        /\ (pc = "idle" /\ result = "ok") =>
              /\ Len(sent) = 1 /\ sent[1].type = "subscribe"
              /\ subscriptions = hist.pre_subs \cup {sent[1].subscription}
        /\ (pc = "idle" /\ result # "ok") =>
              /\ subscriptions = hist.pre_subs
              /\ sent = <<>>
        /\ hist.send_failed => (pc = "idle" /\ result = "SendError")

\* C21 witness: a subscribe() made while connected has ended with the error
\* of its send.
C21_Witness ==
    /\ pc = "idle" /\ op = "subscribe"
    /\ result = "SendError" /\ hist.send_failed
    /\ hist.pre_connected
    /\ hist.pre_subs # {}

\* C22: a subscribe() or unsubscribe() called while connected (the flag set,
\* the transport open) makes one send_json call, of the frame of its type
\* for its pair, whether or not the pair is in the set; when that send
\* completes the call is over: it has sent exactly that frame, or, the
\* transport having rejected it, nothing.
C22_OneFramePerCall ==
    /\ [][\A p \in Pairs :
            /\ (CallSubscribe(p) /\ connected /\ ~NoOpenWs) =>
                  (pc' = "sub_send" /\ arg' = p /\ sent' = <<>>)
            /\ (CallUnsubscribe(p) /\ connected /\ ~NoOpenWs) =>
                  (pc' = "unsub_send" /\ arg' = p /\ sent' = <<>>)]_vars
    /\ [][(op = "subscribe" /\ pc = "sub_send" /\ pc' # pc) =>
            /\ pc' = "idle"
            /\ \/ result' = "ok" /\ sent' = <<SubscribeFrame(arg)>>
               \/ result' = "SendError" /\ sent' = <<>>]_vars
    /\ [][(op = "unsubscribe" /\ pc = "unsub_send" /\ pc' # pc) =>
            /\ pc' = "idle"
            /\ \/ result' = "ok" /\ sent' = <<UnsubscribeFrame(arg)>>
               \/ result' = "SendError" /\ sent' = <<>>]_vars

\* C22 witness: an unsubscribe() of a pair that was not in the set, made
\* while connected, has returned with its frame sent.
C22_Witness ==
    /\ pc = "idle" /\ op = "unsubscribe" /\ result = "ok"
    /\ hist.pre_connected
    /\ Len(sent) = 1 /\ sent[1].type = "unsubscribe"
    /\ sent[1].subscription \notin hist.pre_subs
    /\ hist.pre_subs # {}

\* The ways connect() fails other than by the caller's cancellation:
\* ws_connect raised, the send of the handshake frame raised, the ready
\* wait timed out or ran out, a closure was received, a frame could not be
\* decoded.
FailedHandshakes ==
    {"open_failed", "send_failed", "timeout", "exhausted", "close", "fault"}

\* C23 as stated: a loop task is created by a successful connect() and by
\* nothing else, one per successful connect(); and a connect() that failed
\* because the transport could not be opened or the handshake failed has
\* ended with the connection-failed error, created no task and left
\* connected false.
C23_LoopOnlyBySuccessfulConnect ==
    /\ op \notin {"connect", "reconnect"} => Len(tasks) = hist.pre_tasks
    /\ op \in {"connect", "reconnect"} =>
          Len(tasks) = hist.pre_tasks + (IF hist.hs = "ready" THEN 1 ELSE 0)
    /\ (pc = "idle" /\ op = "connect" /\ hist.hs \in FailedHandshakes) =>
          /\ result = "ConnectionFailed"
          /\ ~connected

\* A receive of the ready wait that returns leaves the wait or starts the
\* next iteration.
WaitAdvances ==
    (pc = "conn_recv" /\ pc' = "conn_recv" /\ attempt' # attempt) =>
        attempt' = attempt + 1

\* The outcome of the step that ends or continues the ready wait: the
\* flag is set exactly when the ready frame was seen, and then the
\* identifier the server sent is the one recorded.
ReadyIffConnected ==
    pc = "conn_recv" =>
        /\ connected' <=> hist'.hs = "ready"
        /\ hist'.hs = "ready" => connection_id' = ws /\ pc' # "conn_recv"
        /\ (op = "connect" /\ pc' = "idle") =>
              (result' = "ok" <=> hist'.hs = "ready")

\* C24: the ready wait is in its 1st..10th receive whenever connect() is
\* suspended in it, every receive that returns ends the wait or moves to
\* the next attempt, and under the receive timeout the wait always ends;
\* connect() sets connected and captures the identifier if and only if
\* the ready frame arrived on one of those attempts (a closure, a timeout
\* or the tenth other frame ends the wait first otherwise), and nothing
\* is read after the frame that ended the wait.
C24_BoundedHandshakeWait ==
    /\ [](pc = "conn_recv" => attempt \in 1..10 /\ hist.hs = "none")
    /\ [][WaitAdvances /\ ReadyIffConnected]_vars
    /\ (pc = "conn_recv" ~> pc # "conn_recv")

\* C24 witness: a connect() whose ten receives all returned frames other
\* than ready has ended, failed, with the transport closed.
C24_Witness ==
    /\ Returned("connect")
    /\ hist.hs = "exhausted"
    /\ result = "ConnectionFailed"
    /\ ~connected

\* C25 as stated: a connect() that the caller cancelled after its transport
\* was opened (in the send of the handshake frame or in the ready wait)
\* has closed that transport and left the manager not connected, with no
\* receive loop and no open transport handle.
C25_CancelledConnectCleansUp ==
    (/\ Returned("connect")
     /\ hist.hs = "cancelled"
     /\ Len(transports) > hist.pre_transports) =>
        /\ transports[Len(transports)].closed
        /\ ~connected
        /\ ~ListenTaskPending
        /\ NoOpenWs

\* The registrations of cb in the list cbs.
Count(cbs, cb) == Cardinality({i \in DOMAIN cbs : cbs[i] = cb})

\* The list cbs with its entry i taken out.
Without(cbs, i) ==
    [j \in 1..(Len(cbs) - 1) |-> IF j < i THEN cbs[j] ELSE cbs[j + 1]]

\* A dispatch, seen from the list `now` it left: it invoked observers of
\* the list it started from, in the list's order; it left the list in its
\* order; and the only registrations gone are those of the observers that
\* used their capability, one registration for each use.
InvokedFromList(now) ==
    /\ SubSeqOf(event.invoked, event.registered)
    /\ SubSeqOf(now, event.registered)
    /\ \A cb \in Callbacks :
          Count(now, cb) = Count(event.registered, cb)
                           - (IF cb \in Deregistering
                              THEN Count(event.invoked, cb) ELSE 0)

\* A registry call leaves a list as it was, or with one observer more at
\* its end, or without one of its entries, the others in their order.
RegistryStep(before, after) ==
    \/ after = before
    \/ \E cb \in Callbacks : after = Append(before, cb)
    \/ \E i \in DOMAIN before : after = Without(before, i)

FloorAtCap == 3 * Pow2(Min(attempts, Saturation)) >= 4 * MAX_RECONNECT_DELAY

\* C27 as stated: for every attempt >= 0 and every jitter value,
\* reconnect_delay returns a delay in [0, 16.0]; for attempt 0 the delay is
\* in [0.75, 1.25); and when 2^attempt * 0.75 >= 16 it is exactly 16.0.
C27_DelayWithinCap ==
    delay.called =>
        /\ delay.raised = "none"
        /\ 0 <= delay.value
        /\ delay.value <= MAX_RECONNECT_DELAY * Unit
        /\ attempts = 0 =>
              /\ 3 * Unit <= 4 * delay.value
              /\ 4 * delay.value < 5 * Unit
        /\ FloorAtCap => delay.value = MAX_RECONNECT_DELAY * Unit

\* C28 as stated: a logout() of an authenticated LevitonClient whose
\* request failed with a connection error or with HTTP 401 has returned
\* normally, and after any logout() the token and the user id are cleared.
C28_LogoutNeverPropagates ==
    (cls = "LevitonClient" /\ cop = "logout" /\ cpc = "idle") =>
        /\ token = Unset
        /\ user_id = Unset
        /\ response.status \in {"ClientError", "401"} => cresult = "ok"

\* C29 as stated: create_websocket() on a LevitonClient fails with the
\* auth error while the client is not authenticated (before login or
\* restore_session, after logout), and otherwise returns a LevitonWebSocket
\* with the token, user id, creation time and ttl of the login.
C29_WebsocketOnlyWhileAuthenticated ==
    (cls = "LevitonClient" /\ cop = "create_websocket") =>
        IF token = Unset
        THEN cresult = "LevitonAuthError" /\ websocket = NoWebsocket
        ELSE /\ cresult = "ok"
             /\ websocket.token = token
             /\ websocket.user_id = user_id
             /\ websocket.token_created = auth_token.created
             /\ websocket.token_ttl = auth_token.ttl

\* C30: whenever connected is true the manager holds a transport on which
\* the handshake reached ready (the identifier recorded is that
\* transport's), and its loop task is the one created for that transport,
\* has not ended and has not run its `finally`; in every other state
\* connected is false.
C30_ConnectedMeansLiveLoop ==
    connected =>
        /\ ws # None
        /\ transports[ws].ready
        /\ connection_id = ws
        /\ listen_task # None
        /\ Live(listen_task)
        /\ tasks[listen_task].fin = 0
        /\ tasks[listen_task].ws \in {None, ws}

\* C30 witness: a second connection is up: the manager is connected on the
\* second transport and the second loop task is running on it.
C30_Witness ==
    /\ connected
    /\ ws = 2
    /\ listen_task = 2
    /\ tasks[2].st = "running"
    /\ tasks[2].ws = 2
    /\ tasks[1].fin = 1

\* C31 as stated: the handshake frame is the first frame of the call that
\* sends it, and every subscribe or unsubscribe frame is sent on a
\* transport whose handshake has reached ready, so that the handshake
\* frame went first on it.
C31_HandshakeFirst ==
    \A i \in DOMAIN sent :
        /\ sent[i].type = HandshakeFrame.type => i = 1
        /\ sent[i].type \in {"subscribe", "unsubscribe"} =>
              transports[sent[i].on].ready

\* C32 as stated: the loop task of every successful connect() runs its round
\* of disconnect-observer invocations exactly once when the connection
\* ends: never twice, and once by the time the task is done, whatever
\* ended it (also a disconnect() made before the task took its first
\* step).
C32_OneRoundPerConnection ==
    \A t \in DOMAIN tasks :
        /\ tasks[t].fin <= 1
        /\ ~Live(t) => tasks[t].fin = 1

\* disconnect() or reset() has returned and no call was made since.
AfterTeardown == pc = "idle" /\ op \in {"disconnect", "reset"} /\ result = "ok"

\* C33: once disconnect() or reset() has returned, no loop task is left that
\* could run: connected is false, and no step taken before the next call
\* invokes an observer, ends a loop or sets connected.
C33_QuietAfterTeardown ==
    /\ [](AfterTeardown => (LiveTasks = {} /\ ~connected))
    /\ [][AfterTeardown =>
              /\ event'.invoked = <<>>
              /\ event'.kind \notin Terminations \cup {"notification", "started"}
              /\ ~connected']_vars

\* C33 witness: disconnect() has returned on a manager that was connected,
\* with observers of both kinds registered; the loop of the connection ran
\* its round before the return.
C33_Witness ==
    /\ AfterTeardown
    /\ hist.pre_connected
    /\ notification_callbacks # <<>>
    /\ disconnect_callbacks # <<>>
    /\ tasks # <<>>
    /\ tasks[Len(tasks)].fin = 1

\* Every observer that is still in the list `now` after a dispatch was
\* invoked by it, as many times as it is registered.
NoneSkipped(now) ==
    \A cb \in Registered(now) : Count(event.invoked, cb) >= Count(now, cb)

\* C34 as stated: when an observer deregisters itself during its invocation,
\* the observers that stay registered are all invoked for the notification
\* or the disconnect event being dispatched.
C34_SelfRemovalSkipsNone ==
    /\ event.kind = "notification" => NoneSkipped(notification_callbacks)
    /\ event.kind \in Terminations => NoneSkipped(disconnect_callbacks)

\* C35 as stated: a call of a capability whose registration is gone (it was
\* called before, or reset() has cleared the registries since) raises
\* nothing and leaves both registries as they are.
C35_SpentCapabilityHarmless ==
    [][\A i \in DOMAIN capabilities :
          (capabilities[i].spent /\
           capabilities'[i].calls = capabilities[i].calls + 1) =>
              /\ result' = "ok"
              /\ UNCHANGED registries]_vars

\* The state a reconnect() leaves when it went through on the accepting
\* transport: connected, and each pair of the set sent once on that
\* transport, in a subscribe frame, by this call.
Restored ==
    /\ pc = "idle" /\ op = "reconnect" /\ result = "ok"
    /\ connected
    /\ ws = RetryTransports
    /\ OnTransport(sent, ws)
    /\ ListsOnce(Subscribed(sent), subscriptions)

\* C36: under the retrying caller no pair ever leaves `subscriptions`, and
\* once the accepting transport is open the manager reaches connected with
\* every pair of the set re-sent on that transport, whatever attempts
\* failed before (at the open, in the handshake, part-way through the
\* replay).
C36_RetryRestores ==
    /\ [][subscriptions \subseteq subscriptions']_vars
    /\ Accepting ~> Restored

\* Both pairs are restored on the third transport, by a reconnect() that
\* follows a connection on the second transport which reached ready and was
\* then lost or given up.
C36_Witness ==
    /\ Restored
    /\ subscriptions = Pairs
    /\ transports[2].ready
    /\ Len(tasks) = 3

\* The transports not closed.
Unclosed == {w \in DOMAIN transports : ~transports[w].closed}

\* connect() has just failed after it had opened a transport.
FailedAfterOpen ==
    /\ Returned("connect")
    /\ hist.hs \in FailedHandshakes
    /\ Len(transports) > hist.pre_transports

\* C37 as stated: after connect() fails for any reason, the transport that
\* call opened is closed and the manager holds no open transport; at most
\* one transport is un-closed at any time.
C37_NoTransportLeaked ==
    /\ FailedAfterOpen => (transports[Len(transports)].closed /\ NoOpenWs)
    /\ Cardinality(Unclosed) <= 1

\* C38 as stated: every error connect() raises to its caller is the
\* connection-failed error, whichever step of the handshake failed.
C38_OnlyConnectionFailed ==
    (Returned("connect") /\ hist.hs \in FailedHandshakes) =>
        result = "ConnectionFailed"

\* C39 as stated: a text frame that is valid JSON but no object is skipped
\* by the loop: no observer is invoked, the task keeps running and
\* connected keeps its value.
C39_NonObjectSkipped ==
    [][event'.kind = "non_object" =>
          /\ event'.invoked = <<>>
          /\ tasks'[event'.task].st = "running"
          /\ connected' = connected]_vars

====
